---- MODULE Spec2Model ----
(***************************************************************************)
(* Statement parser of the SQL front end (src/src/parser.rs), stepped one  *)
(* cursor operation at a time over a materialised token sequence, together *)
(* with the AST it builds (src/src/ast.rs) and the errors it returns       *)
(* (src/src/main.rs, ParseError).                                          *)
(*                                                                         *)
(* Values are tagged tuples, tag first: a token is <<"Keyword", "Select">>,*)
(* <<"Identifier", "a">>, <<"Number", 5>>, <<"Comma">>, ...; Option is     *)
(* <<>> (None) or <<x>> (Some(x)); Result is <<"Ok", v>> or <<"Err", e>>.  *)
(***************************************************************************)
EXTENDS Naturals, Sequences, FiniteSets, TLC

VARIABLES tokens, position, pc, columns, table, selection, order_by,
          order_columns, table_name, name, size, values, result

vars == <<tokens, position, pc, columns, table, selection, order_by,
          order_columns, table_name, name, size, values, result>>

\* ------------------------------------------------------------------ Option, Result
None == <<>>
Some(x) == <<x>>
Ok(v) == <<"Ok", v>>
Err(e) == <<"Err", e>>

\* ------------------------------------------------------------------ Token model
Token_Keyword(k) == <<"Keyword", k>>
Token_Identifier(s) == <<"Identifier", s>>
Token_Number(n) == <<"Number", n>>
Token_String(s) == <<"String", s>>
Token_Boolean(b) == <<"Boolean", b>>
Token_Null == <<"Null">>
Token_Comma == <<"Comma">>
Token_Semicolon == <<"Semicolon">>
Token_LeftParen == <<"LeftParen">>
Token_RightParen == <<"RightParen">>
Token_Eof == <<"Eof">>
\* symbolic operators  =  <>  <  <=  >  >=  +  -  *  /
Token_Equal == <<"Equal">>
Token_NotEqual == <<"NotEqual">>
Token_LessThan == <<"LessThan">>
Token_LessThanOrEqual == <<"LessThanOrEqual">>
Token_GreaterThan == <<"GreaterThan">>
Token_GreaterThanOrEqual == <<"GreaterThanOrEqual">>
Token_Plus == <<"Plus">>
Token_Minus == <<"Minus">>
Token_Star == <<"Star">>
Token_Divide == <<"Divide">>

\* format!("{:?}", keyword): the variant's name
DebugKeyword(k) == k

\* format!("{:?}", tok): the derived Debug text of a token
DebugToken(tok) ==
    CASE tok[1] = "Keyword" -> "Keyword(" \o DebugKeyword(tok[2]) \o ")"
      [] tok[1] = "Identifier" -> "Identifier(" \o ToString(tok[2]) \o ")"
      [] tok[1] = "String" -> "String(" \o ToString(tok[2]) \o ")"
      [] tok[1] = "Number" -> "Number(" \o ToString(tok[2]) \o ")"
      [] tok[1] = "Boolean" -> "Boolean(" \o (IF tok[2] THEN "true" ELSE "false") \o ")"
      [] OTHER -> tok[1]

\* ------------------------------------------------------------------ AST (ast.rs)
Expression_Identifier(s) == <<"Identifier", s>>
Expression_Number(n) == <<"Number", n>>
Expression_String(s) == <<"String", s>>
Expression_Boolean(b) == <<"Boolean", b>>
Expression_Null == <<"Null">>
Expression_UnaryOperation(operator, operand) == <<"UnaryOperation", operator, operand>>
Expression_BinaryOperation(left_operand, operator, right_operand) == <<"BinaryOperation", left_operand, operator, right_operand>>
Expression_Grouped(e) == <<"Grouped", e>>

DataType_Int == <<"Int">>
DataType_Varchar(n) == <<"Varchar", n>>
DataType_Boolean == <<"Boolean">>
ColumnDef(col_name, data_type) == <<col_name, data_type>>

Statement_Select(cols, tbl, sel, ord) == <<"Select", cols, tbl, sel, ord>>
Statement_CreateTable(tbl, cols) == <<"CreateTable", tbl, cols>>
Statement_Insert(tbl, cols, vals) == <<"Insert", tbl, cols, vals>>

\* ------------------------------------------------------------------ ParseError (main.rs)
ParseError_UnexpectedEnd == <<"UnexpectedEnd">>
ParseError_ExpectedKeyword(s) == <<"ExpectedKeyword", s>>
ParseError_ExpectedIdentifier == <<"ExpectedIdentifier">>
ParseError_InvalidExpression(s) == <<"InvalidExpression", s>>
ParseError_UnknownStartOfStatement(s) == <<"UnknownStartOfStatement", s>>
ParseError_General(s) == <<"General", s>>

\* ------------------------------------------------------------------ Expression parser
\* A binary operator token's <<operator, left binding power>>, None otherwise.
\* OR < AND < (NOT) < comparisons < + - < (unary -) < * /
binary_operator(tok) ==
    CASE tok = Token_Keyword("Or") -> Some(<<"Or", 1>>)
      [] tok = Token_Keyword("And") -> Some(<<"And", 2>>)
      [] tok = Token_Equal -> Some(<<"Equals", 4>>)
      [] tok = Token_NotEqual -> Some(<<"NotEquals", 4>>)
      [] tok = Token_LessThan -> Some(<<"LessThan", 4>>)
      [] tok = Token_LessThanOrEqual -> Some(<<"LessThanOrEqual", 4>>)
      [] tok = Token_GreaterThan -> Some(<<"GreaterThan", 4>>)
      [] tok = Token_GreaterThanOrEqual -> Some(<<"GreaterThanOrEqual", 4>>)
      [] tok = Token_Plus -> Some(<<"Add", 5>>)
      [] tok = Token_Minus -> Some(<<"Subtract", 5>>)
      [] tok = Token_Star -> Some(<<"Multiply", 7>>)
      [] tok = Token_Divide -> Some(<<"Divide", 7>>)
      [] OTHER -> None

\* A unary operator token's <<operator, binding power>>, None otherwise.
unary_operator(tok) ==
    CASE tok = Token_Keyword("Not") -> Some(<<"Not", 3>>)
      [] tok = Token_Minus -> Some(<<"Negate", 6>>)
      [] OTHER -> None

RECURSIVE parse_expression(_, _, _)
RECURSIVE parse_primary(_, _)
RECURSIVE parse_binary(_, _, _, _)

\* Results are <<"Ok", expression, cursor>> or <<"Err", message>>; the cursor
\* counts the tokens of toks consumed so far.
parse_primary(toks, p) ==
    IF p >= Len(toks) THEN Err("Unexpected end of expression")
    ELSE LET tok == toks[p + 1] IN
         CASE tok[1] = "Identifier" -> <<"Ok", Expression_Identifier(tok[2]), p + 1>>
           [] tok[1] = "Number" -> <<"Ok", Expression_Number(tok[2]), p + 1>>
           [] tok[1] = "String" -> <<"Ok", Expression_String(tok[2]), p + 1>>
           [] tok[1] = "Boolean" -> <<"Ok", Expression_Boolean(tok[2]), p + 1>>
           [] tok = Token_Null -> <<"Ok", Expression_Null, p + 1>>
           [] unary_operator(tok) # None ->
                LET u == unary_operator(tok)[1]
                    r == parse_expression(toks, p + 1, u[2])
                IN  IF r[1] = "Err" THEN r
                    ELSE <<"Ok", Expression_UnaryOperation(u[1], r[2]), r[3]>>
           [] tok = Token_LeftParen ->
                LET r == parse_expression(toks, p + 1, 1)
                IN  IF r[1] = "Err" THEN r
                    ELSE IF r[3] < Len(toks) /\ toks[r[3] + 1] = Token_RightParen
                         THEN <<"Ok", Expression_Grouped(r[2]), r[3] + 1>>
                         ELSE Err("Expected closing parenthesis")
           [] OTHER -> Err("Unexpected token in expression: " \o DebugToken(tok))

parse_binary(toks, p, left, min_bp) ==
    IF p >= Len(toks) THEN <<"Ok", left, p>>
    ELSE LET b == binary_operator(toks[p + 1]) IN
         IF b = None \/ b[1][2] < min_bp THEN <<"Ok", left, p>>
         ELSE LET r == parse_expression(toks, p + 1, b[1][2] + 1)
              IN  IF r[1] = "Err" THEN r
                  ELSE parse_binary(toks, r[3],
                                    Expression_BinaryOperation(left, b[1][1], r[2]),
                                    min_bp)

parse_expression(toks, p, min_bp) ==
    LET l == parse_primary(toks, p)
    IN  IF l[1] = "Err" THEN l ELSE parse_binary(toks, l[3], l[2], min_bp)

\* PrattParser::new(remaining_tokens).parse_expression(min_bp): Result<Expression, String>
PrattParser_parse_expression(remaining_tokens, min_bp) ==
    LET r == parse_expression(remaining_tokens, 0, min_bp)
    IN  IF r[1] = "Err" THEN r ELSE Ok(r[2])

\* ------------------------------------------------------------------ SQLParser cursor
\* self.tokens.get(i)
get(i) == IF i < Len(tokens) THEN Some(tokens[i + 1]) ELSE None

peek == get(position)

\* mutant: the cursor stays where it is when no token is left
advance_saturating ==
    [token |-> get(position),
     position |-> IF position < Len(tokens) THEN position + 1 ELSE position]

\* the token advance returns and the cursor it leaves
advance == [token |-> get(position), position |-> position + 1]

is_identifier(t) == t # None /\ t[1][1] = "Identifier"
is_number(t) == t # None /\ t[1][1] = "Number"
is_string(t) == t # None /\ t[1][1] = "String"
is_boolean(t) == t # None /\ t[1][1] = "Boolean"

expect_keyword(keyword) ==
    LET t == advance.token IN
    IF t = Some(Token_Keyword(keyword)) THEN Ok(<<>>)
    ELSE IF t # None THEN Err(ParseError_ExpectedKeyword(DebugKeyword(keyword)))
    ELSE Err(ParseError_UnexpectedEnd)

expect_identifier ==
    LET t == advance.token IN
    IF is_identifier(t) THEN Ok(t[1][2])
    ELSE IF t # None THEN Err(ParseError_ExpectedIdentifier)
    ELSE Err(ParseError_UnexpectedEnd)

\* return Err(e) / the `?` operator on an Err
Return(r) == pc' = "done" /\ result' = r

\* self.expect_keyword(keyword)?; continuing at program point `next`
ExpectKeyword(keyword, next) ==
    /\ position' = advance.position
    /\ LET r == expect_keyword(keyword) IN
       IF r[1] = "Ok" THEN pc' = next /\ UNCHANGED result ELSE Return(r)
    /\ UNCHANGED <<tokens, columns, table, selection, order_by, order_columns,
                   table_name, name, size, values>>

\* ------------------------------------------------------------------ parse_statement
\* Some(tok) => Err(ParseError::UnknownStartOfStatement(format!("{:?}", tok)))
unknown_start_of_statement(tok) == Err(ParseError_UnknownStartOfStatement(DebugToken(tok)))

\* None => Err(ParseError::General("Empty input".to_string()))
empty_input == Err(ParseError_General("Empty input"))

\* mutant: the dispatch consumes the token it looks at
ParseStatement_Advances ==
    /\ pc = "parse_statement"
    /\ position' = advance.position
    /\ LET t == advance.token IN
       IF t = Some(Token_Keyword("Select")) THEN pc' = "parse_select" /\ UNCHANGED result
       ELSE IF t = Some(Token_Keyword("Create")) THEN pc' = "parse_create_table" /\ UNCHANGED result
       ELSE IF t = Some(Token_Keyword("Insert")) THEN pc' = "parse_insert" /\ UNCHANGED result
       ELSE IF t # None THEN Return(unknown_start_of_statement(t[1]))
       ELSE Return(empty_input)
    /\ UNCHANGED <<tokens, columns, table, selection, order_by, order_columns,
                   table_name, name, size, values>>

ParseStatement ==
    /\ pc = "parse_statement"
    /\ LET t == peek IN
       IF t = Some(Token_Keyword("Select")) THEN pc' = "parse_select" /\ UNCHANGED result
       ELSE IF t = Some(Token_Keyword("Create")) THEN pc' = "parse_create_table" /\ UNCHANGED result
       ELSE IF t = Some(Token_Keyword("Insert")) THEN pc' = "parse_insert" /\ UNCHANGED result
       ELSE IF t # None THEN Return(unknown_start_of_statement(t[1]))
       ELSE Return(empty_input)
    /\ UNCHANGED <<tokens, position, columns, table, selection, order_by, order_columns,
                   table_name, name, size, values>>

\* ------------------------------------------------------------------ parse_select
SelectKeyword ==
    /\ pc = "parse_select"
    /\ ExpectKeyword("Select", "select_columns")

\* mutant: the column loop goes round again when no token is left
SelectColumns_ContinuesAtEnd ==
    /\ pc = "select_columns"
    /\ position' = advance.position
    /\ LET t == advance.token IN
       IF is_identifier(t) THEN columns' = Append(columns, t[1][2]) /\ UNCHANGED <<pc, result>>
       ELSE IF t = Some(Token_Comma) THEN UNCHANGED <<columns, pc, result>>
       ELSE IF t = Some(Token_Keyword("From")) THEN pc' = "select_table" /\ UNCHANGED <<columns, result>>
       ELSE IF t # None
            THEN Return(Err(ParseError_General("Unexpected token in column list: " \o DebugToken(t[1]))))
                 /\ UNCHANGED columns
       ELSE UNCHANGED <<columns, pc, result>>
    /\ UNCHANGED <<tokens, table, selection, order_by, order_columns, table_name, name, size, values>>

SelectColumns ==
    /\ pc = "select_columns"
    /\ position' = advance.position
    /\ LET t == advance.token IN
       IF is_identifier(t) THEN columns' = Append(columns, t[1][2]) /\ UNCHANGED <<pc, result>>
       ELSE IF t = Some(Token_Comma) THEN UNCHANGED <<columns, pc, result>>
       ELSE IF t = Some(Token_Keyword("From")) THEN pc' = "select_table" /\ UNCHANGED <<columns, result>>
       ELSE IF t # None
            THEN Return(Err(ParseError_General("Unexpected token in column list: " \o DebugToken(t[1]))))
                 /\ UNCHANGED columns
       ELSE Return(Err(ParseError_General("Unexpected end of input while reading columns.")))
            /\ UNCHANGED columns
    /\ UNCHANGED <<tokens, table, selection, order_by, order_columns, table_name, name, size, values>>

SelectTable ==
    /\ pc = "select_table"
    /\ position' = advance.position
    /\ LET r == expect_identifier IN
       IF r[1] = "Ok" THEN table' = r[2] /\ pc' = "select_where" /\ UNCHANGED result
       ELSE Return(r) /\ UNCHANGED table
    /\ UNCHANGED <<tokens, columns, selection, order_by, order_columns, table_name, name, size, values>>

\* mutant: the slice taken one token further on
slice_from_next(start) == IF start + 1 > Len(tokens) THEN <<"Panic">> ELSE Ok(SubSeq(tokens, start + 2, Len(tokens)))

\* &self.tokens[start..]: panics when start > len
slice_from(start) == IF start > Len(tokens) THEN <<"Panic">> ELSE Ok(SubSeq(tokens, start + 1, Len(tokens)))

\* mutant: the expression parser's message wrapped as a General error
map_err_general(r) == IF r[1] = "Err" THEN Err(ParseError_General(r[2])) ELSE r

\* .map_err(ParseError::InvalidExpression)
map_err_invalid_expression(r) == IF r[1] = "Err" THEN Err(ParseError_InvalidExpression(r[2])) ELSE r

\* mutant: the expression parser entered above the binding power of + and -
SelectWhere_AboveAdditive ==
    /\ pc = "select_where"
    /\ IF peek = Some(Token_Keyword("Where"))
       THEN /\ position' = advance.position
            /\ LET remaining_tokens == slice_from(advance.position) IN
               IF remaining_tokens[1] = "Panic"
               THEN Return(remaining_tokens) /\ UNCHANGED selection
               ELSE LET expr == map_err_invalid_expression(
                                 PrattParser_parse_expression(remaining_tokens[2], 6)) IN
                    IF expr[1] = "Err"
                    THEN Return(expr) /\ UNCHANGED selection
                    ELSE selection' = Some(expr[2]) /\ pc' = "select_order" /\ UNCHANGED result
       ELSE pc' = "select_order" /\ UNCHANGED <<position, selection, result>>
    /\ UNCHANGED <<tokens, columns, table, order_by, order_columns, table_name, name, size, values>>

SelectWhere ==
    /\ pc = "select_where"
    /\ IF peek = Some(Token_Keyword("Where"))
       THEN /\ position' = advance.position
            /\ LET remaining_tokens == slice_from(advance.position) IN
               IF remaining_tokens[1] = "Panic"
               THEN Return(remaining_tokens) /\ UNCHANGED selection
               ELSE LET expr == map_err_invalid_expression(
                                 PrattParser_parse_expression(remaining_tokens[2], 1)) IN
                    IF expr[1] = "Err"
                    THEN Return(expr) /\ UNCHANGED selection
                    ELSE selection' = Some(expr[2]) /\ pc' = "select_order" /\ UNCHANGED result
       ELSE pc' = "select_order" /\ UNCHANGED <<position, selection, result>>
    /\ UNCHANGED <<tokens, columns, table, order_by, order_columns, table_name, name, size, values>>

\* mutant: order_by built from the (possibly empty) list instead of left None
select_statement_always_ordered(order) == Ok(Statement_Select(columns, table, selection, Some(order_columns)))

\* Ok(Statement::Select { columns, table, selection, order_by })
select_statement(order) == Ok(Statement_Select(columns, table, selection, order))

\* mutant: a token other than Eof or a semicolon after the statement is an error
SelectOrder_RejectsTrailing ==
    /\ pc = "select_order"
    /\ IF peek = Some(Token_Keyword("Order"))
       THEN position' = advance.position /\ pc' = "select_order_by" /\ UNCHANGED result
       ELSE IF peek \in {None, Some(Token_Eof), Some(Token_Semicolon)}
            THEN Return(select_statement(order_by)) /\ UNCHANGED position
            ELSE Return(Err(ParseError_General("Unexpected token: " \o DebugToken(peek[1]))))
                 /\ UNCHANGED position
    /\ UNCHANGED <<tokens, columns, table, selection, order_by, order_columns, table_name,
                   name, size, values>>

SelectOrder ==
    /\ pc = "select_order"
    /\ IF peek = Some(Token_Keyword("Order"))
       THEN position' = advance.position /\ pc' = "select_order_by" /\ UNCHANGED result
       ELSE Return(select_statement(order_by)) /\ UNCHANGED position
    /\ UNCHANGED <<tokens, columns, table, selection, order_by, order_columns, table_name,
                   name, size, values>>

SelectOrderBy ==
    /\ pc = "select_order_by"
    /\ ExpectKeyword("By", "select_order_columns")

\* mutant: only the semicolon ends the ORDER BY list
ends_order_by_semicolon_only(t) == t = Some(Token_Semicolon)

\* Some(Token::Semicolon) | Some(Token::Eof) => break
ends_order_by(t) == t = Some(Token_Semicolon) \/ t = Some(Token_Eof)

SelectOrderColumns ==
    /\ pc = "select_order_columns"
    /\ position' = advance.position
    /\ LET t == advance.token IN
       IF is_identifier(t)
       THEN order_columns' = Append(order_columns, t[1][2]) /\ UNCHANGED <<order_by, pc, result>>
       ELSE IF t = Some(Token_Comma) THEN UNCHANGED <<order_columns, order_by, pc, result>>
       ELSE IF ends_order_by(t)
            THEN /\ order_by' = Some(order_columns)
                 /\ Return(select_statement(order_by'))
                 /\ UNCHANGED order_columns
       ELSE IF t # None
            THEN Return(Err(ParseError_General("Unexpected token in ORDER BY: " \o DebugToken(t[1]))))
                 /\ UNCHANGED <<order_columns, order_by>>
       ELSE Return(Err(ParseError_UnexpectedEnd)) /\ UNCHANGED <<order_columns, order_by>>
    /\ UNCHANGED <<tokens, columns, table, selection, table_name, name, size, values>>

\* ------------------------------------------------------------------ parse_create_table
CreateKeyword ==
    /\ pc = "parse_create_table"
    /\ ExpectKeyword("Create", "create_table")

CreateTableKeyword ==
    /\ pc = "create_table"
    /\ ExpectKeyword("Table", "create_table_name")

CreateTableName ==
    /\ pc = "create_table_name"
    /\ position' = advance.position
    /\ LET r == expect_identifier IN
       IF r[1] = "Ok" THEN table_name' = r[2] /\ pc' = "create_left_paren" /\ UNCHANGED result
       ELSE Return(r) /\ UNCHANGED table_name
    /\ UNCHANGED <<tokens, columns, table, selection, order_by, order_columns, name, size, values>>

CreateLeftParen ==
    /\ pc = "create_left_paren"
    /\ ExpectKeyword("LeftParen", "create_columns")

CreateColumns ==
    /\ pc = "create_columns"
    /\ position' = advance.position
    /\ LET t == advance.token IN
       IF is_identifier(t) THEN name' = t[1][2] /\ pc' = "parse_column_type" /\ UNCHANGED result
       ELSE IF t = Some(Token_Comma) THEN UNCHANGED <<name, pc, result>>
       ELSE IF t = Some(Token_RightParen)
            THEN Return(Ok(Statement_CreateTable(table_name, columns))) /\ UNCHANGED name
       ELSE IF t # None
            THEN Return(Err(ParseError_General("Unexpected token: " \o DebugToken(t[1]))))
                 /\ UNCHANGED name
       ELSE Return(Err(ParseError_UnexpectedEnd)) /\ UNCHANGED name
    /\ UNCHANGED <<tokens, columns, table, selection, order_by, order_columns, table_name,
                   size, values>>

\* size as usize: u64 to usize, the same value on a 64-bit target
as_usize(n) == n

\* columns.push(ColumnDef { name, data_type: col_type }) and back to the loop
PushColumnDef(col_type) ==
    /\ columns' = Append(columns, ColumnDef(name, col_type))
    /\ pc' = "create_columns"
    /\ UNCHANGED result

ExpectedSizeForVarchar == Err(ParseError_General("Expected size for Varchar"))

ColumnType ==
    /\ pc = "parse_column_type"
    /\ position' = advance.position
    /\ LET t == advance.token IN
       IF t = Some(Token_Keyword("Int")) THEN PushColumnDef(DataType_Int)
       ELSE IF t = Some(Token_Keyword("Varchar"))
            THEN pc' = "varchar_left_paren" /\ UNCHANGED <<columns, result>>
       ELSE IF t = Some(Token_Keyword("Boolean")) THEN PushColumnDef(DataType_Boolean)
       ELSE IF t # None
            THEN Return(Err(ParseError_General("Unexpected column type: " \o DebugToken(t[1]))))
                 /\ UNCHANGED columns
       ELSE Return(Err(ParseError_UnexpectedEnd)) /\ UNCHANGED columns
    /\ UNCHANGED <<tokens, table, selection, order_by, order_columns, table_name, name,
                   size, values>>

\* mutant: VARCHAR with no size following takes a default size
VarcharLeftParen_DefaultSize ==
    /\ pc = "varchar_left_paren"
    /\ IF peek = Some(Token_LeftParen)
       THEN position' = advance.position /\ pc' = "varchar_size" /\ UNCHANGED <<columns, result>>
       ELSE PushColumnDef(DataType_Varchar(255)) /\ UNCHANGED position
    /\ UNCHANGED <<tokens, table, selection, order_by, order_columns, table_name,
                   name, size, values>>

VarcharLeftParen ==
    /\ pc = "varchar_left_paren"
    /\ IF peek = Some(Token_LeftParen)
       THEN position' = advance.position /\ pc' = "varchar_size" /\ UNCHANGED result
       ELSE Return(ExpectedSizeForVarchar) /\ UNCHANGED position
    /\ UNCHANGED <<tokens, columns, table, selection, order_by, order_columns, table_name,
                   name, size, values>>

VarcharSize ==
    /\ pc = "varchar_size"
    /\ position' = advance.position
    /\ LET t == advance.token IN
       IF is_number(t) THEN size' = t[1][2] /\ pc' = "varchar_right_paren" /\ UNCHANGED result
       ELSE Return(ExpectedSizeForVarchar) /\ UNCHANGED size
    /\ UNCHANGED <<tokens, columns, table, selection, order_by, order_columns, table_name,
                   name, values>>

VarcharRightParen ==
    /\ pc = "varchar_right_paren"
    /\ position' = advance.position
    /\ IF advance.token = Some(Token_RightParen)
       THEN PushColumnDef(DataType_Varchar(as_usize(size)))
       ELSE Return(ExpectedSizeForVarchar) /\ UNCHANGED columns
    /\ UNCHANGED <<tokens, table, selection, order_by, order_columns, table_name, name,
                   size, values>>

\* ------------------------------------------------------------------ parse_insert
InsertKeyword ==
    /\ pc = "parse_insert"
    /\ ExpectKeyword("Insert", "insert_into")

InsertInto ==
    /\ pc = "insert_into"
    /\ ExpectKeyword("Into", "insert_table_name")

InsertTableName ==
    /\ pc = "insert_table_name"
    /\ position' = advance.position
    /\ LET r == expect_identifier IN
       IF r[1] = "Ok" THEN table_name' = r[2] /\ pc' = "insert_left_paren" /\ UNCHANGED result
       ELSE Return(r) /\ UNCHANGED table_name
    /\ UNCHANGED <<tokens, columns, table, selection, order_by, order_columns, name, size, values>>

InsertLeftParen ==
    /\ pc = "insert_left_paren"
    /\ ExpectKeyword("LeftParen", "insert_columns")

InsertColumns ==
    /\ pc = "insert_columns"
    /\ position' = advance.position
    /\ LET t == advance.token IN
       IF is_identifier(t) THEN columns' = Append(columns, t[1][2]) /\ UNCHANGED <<pc, result>>
       ELSE IF t = Some(Token_Comma) THEN UNCHANGED <<columns, pc, result>>
       ELSE IF t = Some(Token_RightParen) THEN pc' = "insert_values" /\ UNCHANGED <<columns, result>>
       ELSE IF t # None
            THEN Return(Err(ParseError_General("Unexpected token in column list: " \o DebugToken(t[1]))))
                 /\ UNCHANGED columns
       ELSE Return(Err(ParseError_UnexpectedEnd)) /\ UNCHANGED columns
    /\ UNCHANGED <<tokens, table, selection, order_by, order_columns, table_name, name,
                   size, values>>

InsertValuesKeyword ==
    /\ pc = "insert_values"
    /\ ExpectKeyword("Values", "insert_values_left_paren")

InsertValuesLeftParen ==
    /\ pc = "insert_values_left_paren"
    /\ ExpectKeyword("LeftParen", "insert_values_list")

\* mutant: a token that is no value is skipped like a comma
InsertValues_SkipsOthers ==
    /\ pc = "insert_values_list"
    /\ position' = advance.position
    /\ LET t == advance.token IN
       IF is_number(t) THEN values' = Append(values, Expression_Number(t[1][2])) /\ UNCHANGED <<pc, result>>
       ELSE IF is_string(t) THEN values' = Append(values, Expression_String(t[1][2])) /\ UNCHANGED <<pc, result>>
       ELSE IF is_boolean(t) THEN values' = Append(values, Expression_Boolean(t[1][2])) /\ UNCHANGED <<pc, result>>
       ELSE IF t = Some(Token_Null) THEN values' = Append(values, Expression_Null) /\ UNCHANGED <<pc, result>>
       ELSE IF is_identifier(t) THEN values' = Append(values, Expression_Identifier(t[1][2])) /\ UNCHANGED <<pc, result>>
       ELSE IF t = Some(Token_Comma) THEN UNCHANGED <<values, pc, result>>
       ELSE IF t = Some(Token_RightParen)
            THEN Return(Ok(Statement_Insert(table_name, columns, values))) /\ UNCHANGED values
       ELSE IF t # None THEN UNCHANGED <<values, pc, result>>
       ELSE Return(Err(ParseError_UnexpectedEnd)) /\ UNCHANGED values
    /\ UNCHANGED <<tokens, columns, table, selection, order_by, order_columns, table_name,
                   name, size>>

InsertValues ==
    /\ pc = "insert_values_list"
    /\ position' = advance.position
    /\ LET t == advance.token IN
       IF is_number(t) THEN values' = Append(values, Expression_Number(t[1][2])) /\ UNCHANGED <<pc, result>>
       ELSE IF is_string(t) THEN values' = Append(values, Expression_String(t[1][2])) /\ UNCHANGED <<pc, result>>
       ELSE IF is_boolean(t) THEN values' = Append(values, Expression_Boolean(t[1][2])) /\ UNCHANGED <<pc, result>>
       ELSE IF t = Some(Token_Null) THEN values' = Append(values, Expression_Null) /\ UNCHANGED <<pc, result>>
       ELSE IF is_identifier(t) THEN values' = Append(values, Expression_Identifier(t[1][2])) /\ UNCHANGED <<pc, result>>
       ELSE IF t = Some(Token_Comma) THEN UNCHANGED <<values, pc, result>>
       ELSE IF t = Some(Token_RightParen)
            THEN Return(Ok(Statement_Insert(table_name, columns, values))) /\ UNCHANGED values
       ELSE IF t # None
            THEN Return(Err(ParseError_General("Unexpected token in VALUES: " \o DebugToken(t[1]))))
                 /\ UNCHANGED values
       ELSE Return(Err(ParseError_UnexpectedEnd)) /\ UNCHANGED values
    /\ UNCHANGED <<tokens, columns, table, selection, order_by, order_columns, table_name,
                   name, size>>

\* ------------------------------------------------------------------ token sequences parsed
\* longest identifier, column-definition and value list of the generated statements
MaxList == 2

Names == {"a", "b"}

\* the non-empty sequences over S of length at most n
SeqsUpTo(S, n) == UNION {[1..k -> S] : k \in 1..n}

RECURSIVE CommaJoin(_)
\* the items of a list of token sequences, separated by commas
CommaJoin(items) ==
    IF Len(items) = 0 THEN <<>>
    ELSE IF Len(items) = 1 THEN items[1]
    ELSE items[1] \o <<Token_Comma>> \o CommaJoin(Tail(items))

IdentifierList(names) == CommaJoin([i \in 1..Len(names) |-> <<Token_Identifier(names[i])>>])

IdLists == SeqsUpTo(Names, MaxList)

Terminators == {<<>>, <<Token_Eof>>, <<Token_Semicolon, Token_Eof>>}

Ends == {<<>>, <<Token_Eof>>}

OperatorTokens ==
    {Token_Equal, Token_NotEqual, Token_LessThan, Token_LessThanOrEqual, Token_GreaterThan,
     Token_GreaterThanOrEqual, Token_Plus, Token_Minus, Token_Star, Token_Divide}

KeywordNames ==
    {"Select", "From", "Where", "Order", "By", "Create", "Table", "Insert", "Into", "Values",
     "Int", "Varchar", "Boolean", "And", "Or", "Not", "LeftParen"}

Alphabet ==
    {Token_Keyword(k) : k \in KeywordNames} \cup OperatorTokens \cup
    {Token_Identifier("a"), Token_Number(5), Token_String("x"), Token_Boolean(TRUE), Token_Null,
     Token_Comma, Token_Semicolon, Token_LeftParen, Token_RightParen, Token_Eof}

\* WHERE expressions, well-formed and not
WhereExpressions ==
    {<<Token_Identifier("a"), Token_Equal, Token_Number(1)>>,
     <<Token_Number(1), Token_Plus, Token_Number(2), Token_Star, Token_Number(3)>>,
     <<Token_Number(2), Token_Star, Token_Number(3), Token_Plus, Token_Number(1)>>,
     <<Token_LeftParen, Token_Number(1), Token_Plus, Token_Number(2), Token_RightParen,
       Token_Star, Token_Number(3)>>,
     <<Token_Keyword("Not"), Token_Identifier("a"), Token_Keyword("And"), Token_Boolean(TRUE)>>,
     <<Token_Minus, Token_Number(1), Token_LessThan, Token_Identifier("b")>>,
     <<Token_Identifier("a"), Token_Equal>>,
     <<Token_LeftParen, Token_Identifier("a")>>,
     <<Token_Star, Token_Number(1)>>,
     <<>>}

SelectTokens(cols, tbl, where, order) ==
    <<Token_Keyword("Select")>> \o IdentifierList(cols)
    \o <<Token_Keyword("From"), Token_Identifier(tbl)>>
    \o (IF where = None THEN <<>> ELSE <<Token_Keyword("Where")>> \o where[1])
    \o (IF order = None THEN <<>>
        ELSE <<Token_Keyword("Order"), Token_Keyword("By")>> \o IdentifierList(order[1]))

SelectInputs ==
    {SelectTokens(cols, "t", where, order) \o term :
        cols \in IdLists,
        where \in {None} \cup {Some(e) : e \in WhereExpressions},
        order \in {None} \cup {Some(l) : l \in IdLists},
        term \in Terminators}

\* the two tokens the code reads an opening parenthesis from
OpeningParens == {Token_Keyword("LeftParen"), Token_LeftParen}

TypeTokens ==
    {<<Token_Keyword("Int")>>, <<Token_Keyword("Boolean")>>,
     <<Token_Keyword("Varchar"), Token_LeftParen, Token_Number(10), Token_RightParen>>,
     <<Token_Keyword("Varchar"), Token_LeftParen, Token_Number(0), Token_RightParen>>}

ColumnDefTokens == {<<Token_Identifier(n)>> \o ty : n \in Names, ty \in TypeTokens}

CreateTokens(open, tbl, defs) ==
    <<Token_Keyword("Create"), Token_Keyword("Table"), Token_Identifier(tbl), open>>
    \o CommaJoin(defs) \o <<Token_RightParen>>

CreateInputs ==
    {CreateTokens(open, "t", defs) \o term :
        open \in OpeningParens, defs \in SeqsUpTo(ColumnDefTokens, MaxList), term \in Ends}

ValueTokens ==
    {Token_Number(5), Token_Boolean(TRUE), Token_Null, Token_String("x"), Token_Identifier("a")}

InsertTokens(open, tbl, cols, vals) ==
    <<Token_Keyword("Insert"), Token_Keyword("Into"), Token_Identifier(tbl), open>>
    \o IdentifierList(cols)
    \o <<Token_RightParen, Token_Keyword("Values"), open>>
    \o CommaJoin([i \in 1..Len(vals) |-> <<vals[i]>>]) \o <<Token_RightParen>>

InsertInputs ==
    {InsertTokens(open, "t", cols, vals) \o term :
        open \in OpeningParens, cols \in IdLists, vals \in SeqsUpTo(ValueTokens, MaxList),
        term \in Ends}

\* statements every grammar rule of which is exercised; varied below
CoreInputs ==
    {SelectTokens(<<"a", "b">>, "t", Some(<<Token_Identifier("a"), Token_Equal, Token_Number(1)>>),
                  Some(<<"a", "b">>)) \o <<Token_Semicolon, Token_Eof>>,
     SelectTokens(<<"a", "b">>, "t", None, Some(<<"a", "b">>)) \o <<Token_Eof>>,
     CreateTokens(Token_Keyword("LeftParen"), "t",
                  <<<<Token_Identifier("a"), Token_Keyword("Int")>>,
                    <<Token_Identifier("b"), Token_Keyword("Varchar"), Token_LeftParen,
                      Token_Number(10), Token_RightParen>>>>) \o <<Token_Eof>>,
     InsertTokens(Token_Keyword("LeftParen"), "t", <<"a", "b">>,
                  <<Token_Number(5), Token_Boolean(TRUE)>>) \o <<Token_Eof>>}

Replace(s, i, x) == [s EXCEPT ![i] = x]

Remove(s, i) == SubSeq(s, 1, i - 1) \o SubSeq(s, i + 1, Len(s))

\* a core statement with one token replaced or removed, or cut short
VariedInputs ==
    UNION {{Replace(s, i, x) : i \in 1..Len(s), x \in Alphabet} : s \in CoreInputs}
    \cup UNION {{Remove(s, i) : i \in 1..Len(s)} : s \in CoreInputs}
    \cup UNION {{SubSeq(s, 1, i) \o e : i \in 0..Len(s), e \in Ends} : s \in CoreInputs}
    \cup {<<x>> : x \in Alphabet}

BinaryOperatorTokens == OperatorTokens \cup {Token_Keyword("And"), Token_Keyword("Or")}

\* the WHERE expression 1 o1 2 o2 3
TwoOperators(o1, o2) == <<Token_Number(1), o1, Token_Number(2), o2, Token_Number(3)>>

\* SELECT a FROM t WHERE 1 o1 2 o2 3, for every pair of binary operators
PrecedenceInputs ==
    {SelectTokens(<<"a">>, "t", Some(TwoOperators(o1, o2)), None) \o <<Token_Eof>> :
        o1 \in BinaryOperatorTokens, o2 \in BinaryOperatorTokens}

\* what stands between two column definitions other than one comma
OddSeparators == {<<>>, <<Token_Comma, Token_Comma>>}

\* CREATE TABLE t ( d1 sep d2 )
SeparatedCreateTokens(d1, sep, d2) ==
    <<Token_Keyword("Create"), Token_Keyword("Table"), Token_Identifier("t"),
      Token_Keyword("LeftParen")>> \o d1 \o sep \o d2 \o <<Token_RightParen>>

\* CREATE TABLE with two definitions not separated by exactly one comma
SeparatorInputs ==
    {SeparatedCreateTokens(d1, sep, d2) \o <<Token_Eof>> :
        d1 \in ColumnDefTokens, sep \in OddSeparators, d2 \in ColumnDefTokens}

\* what may follow a complete statement: nothing, or any token, itself followed by
\* nothing, by Eof or by more tokens
Tails ==
    {<<>>} \cup
    {<<x>> \o e : x \in Alphabet,
                  e \in {<<>>, <<Token_Eof>>, <<Token_Identifier("a"), Token_Eof>>}}

TrailingCreate ==
    CreateTokens(Token_Keyword("LeftParen"), "t",
                 <<<<Token_Identifier("a"), Token_Keyword("Int")>>,
                   <<Token_Identifier("b"), Token_Keyword("Varchar"), Token_LeftParen,
                     Token_Number(10), Token_RightParen>>>>)

TrailingInsert ==
    InsertTokens(Token_Keyword("LeftParen"), "t", <<"a", "b">>,
                 <<Token_Number(5), Token_Boolean(TRUE)>>)

\* complete statements followed by tokens their grammar does not read
TrailingInputs ==
    {SelectTokens(cols, "t", None, None) \o tail : cols \in IdLists, tail \in Tails}
    \cup {TrailingCreate \o tail : tail \in Tails}
    \cup {TrailingInsert \o tail : tail \in Tails}

Inputs ==
    SelectInputs \cup CreateInputs \cup InsertInputs \cup VariedInputs \cup PrecedenceInputs
    \cup SeparatorInputs \cup TrailingInputs

\* ------------------------------------------------------------------ specification
\* SQLParser::new(tokens), before parse_statement
Init ==
    /\ tokens \in Inputs
    /\ position = 0
    /\ pc = "parse_statement"
    /\ columns = <<>>
    /\ table = ""
    /\ selection = None
    /\ order_by = None
    /\ order_columns = <<>>
    /\ table_name = ""
    /\ name = ""
    /\ size = 0
    /\ values = <<>>
    /\ result = None

Next ==
    \/ ParseStatement
    \/ SelectKeyword
    \/ SelectColumns
    \/ SelectTable
    \/ SelectWhere
    \/ SelectOrder
    \/ SelectOrderBy
    \/ SelectOrderColumns
    \/ CreateKeyword
    \/ CreateTableKeyword
    \/ CreateTableName
    \/ CreateLeftParen
    \/ CreateColumns
    \/ ColumnType
    \/ VarcharLeftParen
    \/ VarcharSize
    \/ VarcharRightParen
    \/ InsertKeyword
    \/ InsertInto
    \/ InsertTableName
    \/ InsertLeftParen
    \/ InsertColumns
    \/ InsertValuesKeyword
    \/ InsertValuesLeftParen
    \/ InsertValues

Spec == Init /\ [][Next]_vars

\* before SQLParser::new: no token sequence chosen yet
InitCall ==
    /\ tokens = <<>>
    /\ position = 0
    /\ pc = "new"
    /\ columns = <<>>
    /\ table = ""
    /\ selection = None
    /\ order_by = None
    /\ order_columns = <<>>
    /\ table_name = ""
    /\ name = ""
    /\ size = 0
    /\ values = <<>>
    /\ result = None

\* tokens the expression parser builds an operation or a group from
ExpressionOperators ==
    BinaryOperatorTokens \cup {Token_Keyword("Not"), Token_LeftParen}

\* how many of them follow position i of s
OperatorsAfter(s, i) == Cardinality({j \in (i + 1)..Len(s) : s[j] \in ExpressionOperators})

\* the token sequences without WHERE, and the variations of the core statements in
\* which at most one such token follows a WHERE: the statement parser's own steps
\* are the same whatever expression follows
CallInputs ==
    {s \in Inputs : \A i \in 1..Len(s) : s[i] # Token_Keyword("Where")}
    \cup {s \in VariedInputs :
            \A i \in 1..Len(s) : s[i] = Token_Keyword("Where") => OperatorsAfter(s, i) <= 1}

\* SQLParser::new(tokens): the parser is given its token sequence, cursor at 0
New ==
    /\ pc = "new"
    /\ tokens' \in CallInputs
    /\ position' = 0
    /\ pc' = "parse_statement"
    /\ UNCHANGED <<columns, table, selection, order_by, order_columns, table_name, name, size,
                   values, result>>

NextCall ==
    \/ New
    \/ Next

\* parse_statement is a sequential call that runs until it returns: a step that
\* can be taken is taken
FairSpec == InitCall /\ [][NextCall]_vars /\ WF_vars(NextCall)

\* ------------------------------------------------------------------ main: token collection
\* tokens the tokenizer returns before its input is exhausted, at most
MaxTokens == 2

\* tokenizer.next_token(): any token while input is left, Eof once it is exhausted
next_token == IF Len(tokens) < MaxTokens THEN Alphabet ELSE {Token_Eof}

\* mutant: the loop breaks on Eof before pushing it
CollectToken_BreakBeforePush ==
    /\ pc = "collect"
    /\ \E token \in next_token :
        IF token = Token_Eof
        THEN pc' = "collected" /\ UNCHANGED tokens
        ELSE tokens' = Append(tokens, token) /\ UNCHANGED pc
    /\ UNCHANGED <<position, columns, table, selection, order_by, order_columns, table_name,
                   name, size, values, result>>

\* loop { let token = tokenizer.next_token(); if token == Token::Eof { push; break } push }
CollectToken ==
    /\ pc = "collect"
    /\ \E token \in next_token :
        /\ tokens' = Append(tokens, token)
        /\ pc' = IF token = Token_Eof THEN "collected" ELSE "collect"
    /\ UNCHANGED <<position, columns, table, selection, order_by, order_columns, table_name,
                   name, size, values, result>>

\* let mut parser = SQLParser::new(&tokens)
NewParser ==
    /\ pc = "collected"
    /\ position' = 0
    /\ pc' = "parse_statement"
    /\ UNCHANGED <<tokens, columns, table, selection, order_by, order_columns, table_name,
                   name, size, values, result>>

\* let mut tokens = Vec::new(), before the collection loop
InitRepl ==
    /\ tokens = <<>>
    /\ position = 0
    /\ pc = "collect"
    /\ columns = <<>>
    /\ table = ""
    /\ selection = None
    /\ order_by = None
    /\ order_columns = <<>>
    /\ table_name = ""
    /\ name = ""
    /\ size = 0
    /\ values = <<>>
    /\ result = None

NextRepl ==
    \/ CollectToken
    \/ NewParser

SpecRepl == InitRepl /\ [][NextRepl]_vars

\* ------------------------------------------------------------------ properties
Done == pc = "done"

FirstIs(tok) == Len(tokens) > 0 /\ tokens[1] = tok

\* the (name, type) pair a column definition's tokens declare
DeclaredColumnDef(def) ==
    ColumnDef(def[1][2],
              IF def[2] = Token_Keyword("Int") THEN DataType_Int
              ELSE IF def[2] = Token_Keyword("Boolean") THEN DataType_Boolean
              ELSE DataType_Varchar(def[4][2]))

DeclaredColumnDefs(defs) == [i \in 1..Len(defs) |-> DeclaredColumnDef(defs[i])]

\* the leaf expression a literal or identifier token stands for
LiteralOf(tok) ==
    CASE tok[1] = "Number" -> Expression_Number(tok[2])
      [] tok[1] = "String" -> Expression_String(tok[2])
      [] tok[1] = "Boolean" -> Expression_Boolean(tok[2])
      [] tok[1] = "Identifier" -> Expression_Identifier(tok[2])
      [] OTHER -> Expression_Null

\* C1 (as stated): a well-formed CREATE TABLE whose parentheses are all the
\* punctuation tokens LeftParen / RightParen, followed by Eof, parses to the
\* CreateTable statement holding the declared (name, type) pairs in declared order.
C1_Claim ==
    (Done /\ FirstIs(Token_Keyword("Create"))) =>
        \A defs \in SeqsUpTo(ColumnDefTokens, MaxList) :
            tokens = CreateTokens(Token_LeftParen, "t", defs) \o <<Token_Eof>>
            => result = Ok(Statement_CreateTable("t", DeclaredColumnDefs(defs)))

\* C2 (as stated): SELECT <columns> FROM <table> WHERE <expression> ORDER BY <list> [;] Eof,
\* the expression parser succeeding, parses to a Select with selection Some(expression)
\* and order_by Some(list).
C2_Claim ==
    (Done /\ FirstIs(Token_Keyword("Select"))) =>
        \A cols \in IdLists, e \in WhereExpressions, l \in IdLists,
           term \in {<<Token_Eof>>, <<Token_Semicolon, Token_Eof>>} :
            LET rest == <<Token_Keyword("Order"), Token_Keyword("By")>> \o IdentifierList(l) \o term
                r == PrattParser_parse_expression(e \o rest, 1)
            IN  (tokens = SelectTokens(cols, "t", Some(e), Some(l)) \o term /\ r[1] = "Ok")
                => result = Ok(Statement_Select(cols, "t", Some(r[2]), Some(l)))

\* C3: SELECT c1 , ... , cn FROM t Eof (n >= 1, no WHERE, no ORDER) parses to
\* Select{columns: [c1..cn] in input order, table: t, selection: None, order_by: None}.
C3_SimpleSelect ==
    (Done /\ FirstIs(Token_Keyword("Select"))) =>
        \A cols \in IdLists :
            tokens = SelectTokens(cols, "t", None, None) \o <<Token_Eof>>
            => result = Ok(Statement_Select(cols, "t", None, None))

\* C3 witness: SELECT a , b FROM t Eof has been parsed to a statement
C3_Witness ==
    /\ Done
    /\ tokens = SelectTokens(<<"a", "b">>, "t", None, None) \o <<Token_Eof>>
    /\ result[1] = "Ok"

\* C4 (as stated): INSERT INTO t (columns) VALUES (literals) Eof, its parentheses the
\* punctuation tokens LeftParen / RightParen, parses to Insert with the listed names
\* and literals in input order.
C4_Claim ==
    (Done /\ FirstIs(Token_Keyword("Insert"))) =>
        \A cols \in IdLists, vals \in SeqsUpTo(ValueTokens, MaxList) :
            tokens = InsertTokens(Token_LeftParen, "t", cols, vals) \o <<Token_Eof>>
            => result = Ok(Statement_Insert("t", cols, [i \in 1..Len(vals) |-> LiteralOf(vals[i])]))

\* C5 (as stated): the sequence holding only Eof, and the sequence of no tokens,
\* both yield General("Empty input").
C5_Claim ==
    (Done /\ (tokens = <<>> \/ tokens = <<Token_Eof>>))
    => result = Err(ParseError_General("Empty input"))

\* the index of WHERE when the tokens read
\* SELECT <identifiers and commas> FROM <identifier> WHERE ..., else 0
WhereIndex ==
    IF FirstIs(Token_Keyword("Select")) /\ \E i \in 2..Len(tokens) : tokens[i] = Token_Keyword("From")
    THEN LET f == CHOOSE i \in 2..Len(tokens) :
                      /\ tokens[i] = Token_Keyword("From")
                      /\ \A j \in 2..(i - 1) : tokens[j] # Token_Keyword("From")
         IN  IF /\ \A j \in 2..(f - 1) : tokens[j][1] = "Identifier" \/ tokens[j] = Token_Comma
                /\ Len(tokens) >= f + 2
                /\ tokens[f + 1][1] = "Identifier"
                /\ tokens[f + 2] = Token_Keyword("Where")
             THEN f + 2 ELSE 0
    ELSE 0

\* C6: a SELECT whose WHERE expression the expression parser rejects returns the
\* error InvalidExpression carrying the expression parser's message, and no Statement.
C6_InvalidExpression ==
    (Done /\ WhereIndex > 0) =>
        LET r == PrattParser_parse_expression(SubSeq(tokens, WhereIndex + 1, Len(tokens)), 1)
        IN  r[1] = "Err" => result = Err(ParseError_InvalidExpression(r[2]))

\* C6 witness: SELECT a FROM t WHERE a = Eof has ended in InvalidExpression
C6_Witness ==
    /\ Done
    /\ tokens = SelectTokens(<<"a">>, "t", Some(<<Token_Identifier("a"), Token_Equal>>), None)
                \o <<Token_Eof>>
    /\ result[1] = "Err"
    /\ result[2][1] = "InvalidExpression"

\* LeftParen, a Number and RightParen follow token v
SizeFollows(v) ==
    /\ Len(tokens) >= v + 3
    /\ tokens[v + 1] = Token_LeftParen
    /\ tokens[v + 2][1] = "Number"
    /\ tokens[v + 3] = Token_RightParen

RECURSIVE ReadsColumnTypeAt(_, _)
\* well-formed column definitions and commas fill tokens i .. v-2, token v-1 is a
\* column name: the column loop, entered at token i, reads token v as a column type
ReadsColumnTypeAt(i, v) ==
    IF i >= v \/ v > Len(tokens) THEN FALSE
    ELSE IF tokens[i] = Token_Comma THEN ReadsColumnTypeAt(i + 1, v)
    ELSE IF tokens[i][1] # "Identifier" THEN FALSE
    ELSE IF i + 1 = v THEN TRUE
    ELSE IF tokens[i + 1] \in {Token_Keyword("Int"), Token_Keyword("Boolean")}
         THEN ReadsColumnTypeAt(i + 2, v)
    ELSE IF tokens[i + 1] = Token_Keyword("Varchar") /\ SizeFollows(i + 1)
         THEN ReadsColumnTypeAt(i + 5, v)
    ELSE FALSE

\* token v is the column type VARCHAR of a CREATE TABLE and no (<number>) follows it
VarcharWithoutSizeAt(v) ==
    /\ tokens[1] = Token_Keyword("Create")
    /\ tokens[2] = Token_Keyword("Table")
    /\ tokens[3][1] = "Identifier"
    /\ tokens[4] \in OpeningParens
    /\ tokens[v] = Token_Keyword("Varchar")
    /\ ReadsColumnTypeAt(5, v)
    /\ ~SizeFollows(v)

\* the column definitions completed before token v
DefsBefore(v) ==
    Cardinality({j \in 5..(v - 1) :
        tokens[j] \in {Token_Keyword("Int"), Token_Keyword("Boolean"), Token_Keyword("Varchar")}})

\* C7: when the column type VARCHAR is not followed by LeftParen, a Number and
\* RightParen, the parse ends in an error: never a statement, never an out-of-range
\* access, and no column definition is built for that column.
C7_VarcharNeedsSize ==
    \A v \in 5..Len(tokens) :
        VarcharWithoutSizeAt(v) =>
            /\ result = None \/ result[1] = "Err"
            /\ Done => result[1] = "Err"
            /\ Len(columns) <= DefsBefore(v)

\* C7 witness: VARCHAR ( was read, the token after it is no Number, the parse failed
C7_Witness ==
    /\ Done
    /\ \E v \in 5..Len(tokens) :
        /\ VarcharWithoutSizeAt(v)
        /\ tokens[4] = Token_Keyword("LeftParen")
        /\ position = v + 2
        /\ Len(tokens) >= v + 2
    /\ result = ExpectedSizeForVarchar

\* C8: SELECT a FROM t ORDER BY L Eof and SELECT a FROM t ORDER BY L ; Eof both
\* parse to Select{[a], t, None, Some(L)}; the last token consumed is the
\* terminator, Eof in the one and Semicolon in the other.
C8_OrderByTerminator ==
    (Done /\ FirstIs(Token_Keyword("Select"))) =>
        \A l \in IdLists, term \in {<<Token_Eof>>, <<Token_Semicolon, Token_Eof>>} :
            LET body == SelectTokens(<<"a">>, "t", None, Some(l))
            IN  tokens = body \o term
                => /\ result = Ok(Statement_Select(<<"a">>, "t", None, Some(l)))
                   /\ position = Len(body) + 1
                   /\ tokens[position] = term[1]

\* C8 witness: SELECT a FROM t ORDER BY a Eof, no semicolon, has been parsed
C8_Witness ==
    /\ Done
    /\ tokens = SelectTokens(<<"a">>, "t", None, Some(<<"a">>)) \o <<Token_Eof>>
    /\ result[1] = "Ok"
    /\ tokens[position] = Token_Eof

EntryKeywords == {Token_Keyword("Select"), Token_Keyword("Create"), Token_Keyword("Insert")}

\* C9: when the first token is none of SELECT, CREATE, INSERT the parse ends in
\* UnknownStartOfStatement describing that token, no statement grammar is entered
\* and the cursor stays at 0.
C9_UnknownStart ==
    (Len(tokens) > 0 /\ tokens[1] \notin EntryKeywords) =>
        /\ position = 0
        /\ pc \in {"parse_statement", "done"}
        /\ Done => result = Err(ParseError_UnknownStartOfStatement(DebugToken(tokens[1])))
        /\ columns = <<>> /\ values = <<>> /\ table = "" /\ table_name = ""

\* C9 witness: a sequence starting with FROM has been refused
C9_Witness ==
    /\ Done
    /\ FirstIs(Token_Keyword("From"))
    /\ Len(tokens) > 1
    /\ result = Err(ParseError_UnknownStartOfStatement("Keyword(From)"))

\* complete statements, no terminator, each grammar's required tokens all present
C10_Statements ==
    {SelectTokens(<<"a", "b">>, "t", None, Some(<<"a", "b">>)),
     CreateTokens(Token_Keyword("LeftParen"), "t",
                  <<<<Token_Identifier("a"), Token_Keyword("Int")>>,
                    <<Token_Identifier("b"), Token_Keyword("Varchar"), Token_LeftParen,
                      Token_Number(10), Token_RightParen>>>>),
     InsertTokens(Token_Keyword("LeftParen"), "t", <<"a", "b">>,
                  <<Token_Number(5), Token_Boolean(TRUE)>>)}

\* the proper prefixes of those that are complete statements themselves
C10_CompletePrefixes ==
    {SelectTokens(<<"a", "b">>, "t", None, None),
     SelectTokens(<<"a", "b">>, "t", None, Some(<<"a">>))}

\* C10 (as stated): every proper prefix of a well-formed statement at which the
\* grammar still needs a token, ended with Eof or with nothing, fails with UnexpectedEnd.
C10_Claim ==
    Done =>
        \A s \in C10_Statements, e \in Ends :
            \A i \in 1..(Len(s) - 1) :
                (tokens = SubSeq(s, 1, i) \o e /\ SubSeq(s, 1, i) \notin C10_CompletePrefixes)
                => result = Err(ParseError_UnexpectedEnd)

LeafTags == {"Number", "String", "Boolean", "Null", "Identifier"}

IsLeafToken(tok) == tok[1] \in LeafTags

IsIdentifierOrComma(tok) == tok[1] = "Identifier" \/ tok = Token_Comma

IsNotComma(tok) == tok # Token_Comma

\* the first index from i on whose token does not satisfy Test, Len(tokens) + 1 if none
RECURSIVE FirstNot(_, _)
FirstNot(Test(_), i) ==
    IF i > Len(tokens) THEN i
    ELSE IF Test(tokens[i]) THEN FirstNot(Test, i + 1) ELSE i

\* the index of the column list's RightParen when the tokens read
\* INSERT INTO <identifier> ( <identifiers and commas> ) ..., else 0
InsertColumnsEnd ==
    IF /\ Len(tokens) >= 5
       /\ tokens[1] = Token_Keyword("Insert")
       /\ tokens[2] = Token_Keyword("Into")
       /\ tokens[3][1] = "Identifier"
       /\ tokens[4] = Token_Keyword("LeftParen")
    THEN LET r == FirstNot(IsIdentifierOrComma, 5)
         IN  IF r <= Len(tokens) /\ tokens[r] = Token_RightParen THEN r ELSE 0
    ELSE 0

\* the index of the first token of the VALUES list, 0 when the tokens do not reach it
InsertValuesStart ==
    LET r == InsertColumnsEnd
    IN  IF /\ r > 0
           /\ Len(tokens) >= r + 2
           /\ tokens[r + 1] = Token_Keyword("Values")
           /\ tokens[r + 2] = Token_Keyword("LeftParen")
        THEN r + 3 ELSE 0

\* the names, resp. the leaf expressions, of the non-comma tokens of a list
NamesIn(toks) == LET l == SelectSeq(toks, IsNotComma) IN [i \in 1..Len(l) |-> l[i][2]]

LiteralsIn(toks) == LET l == SelectSeq(toks, IsNotComma) IN [i \in 1..Len(l) |-> LiteralOf(l[i])]

\* C11: every element of an INSERT's values is the leaf expression of the single
\* token at its place in the VALUES list; the first token of the list that is no
\* literal, identifier, comma or RightParen (or the list running out) ends the
\* parse in an error, so no operation or Grouped node appears in Insert.values.
C11_ValuesAreLeaves ==
    LET s == InsertValuesStart IN
    s > 0 =>
        /\ \A i \in DOMAIN values : values[i][1] \in LeafTags
        /\ Done =>
            LET k == FirstNot(LAMBDA tok : IsLeafToken(tok) \/ tok = Token_Comma, s)
            IN  IF k <= Len(tokens) /\ tokens[k] = Token_RightParen
                THEN result = Ok(Statement_Insert(tokens[3][2],
                                                  NamesIn(SubSeq(tokens, 5, InsertColumnsEnd - 1)),
                                                  LiteralsIn(SubSeq(tokens, s, k - 1))))
                ELSE result[1] = "Err"

\* C11 witness: an operator inside the VALUES list, after a value, ended the parse
C11_Witness ==
    /\ Done
    /\ InsertValuesStart > 0
    /\ position > InsertValuesStart
    /\ position <= Len(tokens)
    /\ tokens[position] \in OperatorTokens
    /\ Len(values) >= 1
    /\ result[1] = "Err"

\* C12: the sequence the collection loop builds holds exactly one Eof, as its last
\* element, whatever came before it; the sequence handed to SQLParser::new is not empty.
C12_OneEofLast ==
    /\ pc = "collect" => \A i \in DOMAIN tokens : tokens[i] # Token_Eof
    /\ pc # "collect" =>
        /\ Len(tokens) >= 1
        /\ tokens[Len(tokens)] = Token_Eof
        /\ \A i \in 1..(Len(tokens) - 1) : tokens[i] # Token_Eof

\* C12 witness: two tokens and the Eof were collected and handed to the parser
C12_Witness ==
    /\ pc = "parse_statement"
    /\ Len(tokens) = 3
    /\ tokens[1] # Token_Eof
    /\ tokens[3] = Token_Eof

\* program points whose step calls advance unconditionally
AdvancePoints ==
    {"parse_select", "select_columns", "select_table", "select_order_by", "select_order_columns",
     "parse_create_table", "create_table", "create_table_name", "create_left_paren",
     "create_columns", "parse_column_type", "varchar_size", "varchar_right_paren",
     "parse_insert", "insert_into", "insert_table_name", "insert_left_paren", "insert_columns",
     "insert_values", "insert_values_left_paren", "insert_values_list"}

\* C13: the cursor never decreases: no step moves it by more than one, the dispatch
\* (peek only) leaves it unchanged, and every step that calls advance increases it
\* by exactly 1, also when no token is left.
C13_CursorMonotone ==
    [][/\ position' >= position
       /\ position' <= position + 1
       /\ pc = "parse_statement" => position' = position
       /\ pc \in AdvancePoints => position' = position + 1]_vars

\* C13 witness: advance was called with no token left and moved the cursor past the end
C13_Witness ==
    /\ Done
    /\ position = Len(tokens) + 1
    /\ result = Err(ParseError_UnexpectedEnd)

\* the precedence level of a binary operator token, low to high:
\* OR < AND < comparisons < + - < * /
Level(tok) ==
    CASE tok = Token_Keyword("Or") -> 1
      [] tok = Token_Keyword("And") -> 2
      [] tok \in {Token_Plus, Token_Minus} -> 4
      [] tok \in {Token_Star, Token_Divide} -> 5
      [] OTHER -> 3

OperatorOf(tok) == binary_operator(tok)[1][1]

WhereOf(e) == Ok(Statement_Select(<<"a">>, "t", Some(e), None))

C15_Claim ==
    Done =>
        \A d1 \in ColumnDefTokens, sep \in OddSeparators, d2 \in ColumnDefTokens :
            tokens = SeparatedCreateTokens(d1, sep, d2) \o <<Token_Eof>>
            => result[1] = "Err"

\* C16: parse_statement terminates on every token sequence with a Statement or a
\* ParseError, and the cursor (the number of advances made) never exceeds the
\* length of the sequence by more than one.
C16_Terminates ==
    /\ <>(Done /\ result[1] \in {"Ok", "Err"})
    /\ [](position <= Len(tokens) + 1)

\* C16 witness: a loop ran out of tokens and returned, one advance past the end
C16_Witness ==
    /\ Done
    /\ result[1] = "Err"
    /\ position = Len(tokens) + 1
    /\ Len(columns) = MaxList

\* the sequence's only Eof is its last element
OnlyEofLast ==
    /\ Len(tokens) > 0
    /\ \A i \in 1..Len(tokens) : tokens[i] = Token_Eof <=> i = Len(tokens)

\* C17: taking tokens[position..] after WHERE never panics, on any token sequence;
\* and on a sequence whose only Eof is its last element the cursor never exceeds
\* the length of the sequence.
C17_SliceInBounds ==
    /\ result # <<"Panic">>
    /\ OnlyEofLast => position <= Len(tokens)

\* C17 witness: WHERE was the last token, and the slice taken at position = len
\* was empty
C17_Witness ==
    /\ Done
    /\ Len(tokens) > 0
    /\ tokens[Len(tokens)] = Token_Keyword("Where")
    /\ position = Len(tokens)
    /\ result = Err(ParseError_InvalidExpression("Unexpected end of expression"))

\* the tokens begin with statement, and what follows it, if anything, opens neither
\* a WHERE nor an ORDER BY clause
PlainlyFollowed(statement) ==
    /\ Len(tokens) >= Len(statement)
    /\ SubSeq(tokens, 1, Len(statement)) = statement
    /\ Len(tokens) > Len(statement) =>
         tokens[Len(statement) + 1] \notin {Token_Keyword("Where"), Token_Keyword("Order")}

\* C18: whatever tokens follow a SELECT without WHERE or ORDER, or the closing
\* parenthesis of a CREATE TABLE or an INSERT, the result is the statement of the
\* tokens before them, and the cursor has not moved past the statement's last token.
C18_TrailingIgnored ==
    Done =>
        /\ FirstIs(Token_Keyword("Select")) =>
            \A cols \in IdLists :
                PlainlyFollowed(SelectTokens(cols, "t", None, None))
                => /\ result = Ok(Statement_Select(cols, "t", None, None))
                   /\ position = Len(SelectTokens(cols, "t", None, None))
        /\ PlainlyFollowed(TrailingCreate)
            => /\ result = Ok(Statement_CreateTable("t",
                                 <<ColumnDef("a", DataType_Int),
                                   ColumnDef("b", DataType_Varchar(10))>>))
               /\ position = Len(TrailingCreate)
        /\ PlainlyFollowed(TrailingInsert)
            => /\ result = Ok(Statement_Insert("t", <<"a", "b">>,
                                 <<Expression_Number(5), Expression_Boolean(TRUE)>>))
               /\ position = Len(TrailingInsert)

\* C18 witness: a SELECT returned its statement with a token other than Eof or a
\* semicolon left unread after the table name
C18_Witness ==
    /\ Done
    /\ \E cols \in IdLists :
        /\ tokens = SelectTokens(cols, "t", None, None)
                    \o <<Token_RightParen, Token_Identifier("a"), Token_Eof>>
        /\ result = Ok(Statement_Select(cols, "t", None, None))
    /\ position = Len(tokens) - 3

====
